---- MODULE Spec2Model ----
(***************************************************************************)
(* Model of src/app.py (DevHomey AWS assistant):                           *)
(*   - the two EC2 migration handlers, "Migrate Instance" of tab2          *)
(*     (lines 129-171) and "Migrate Selected Instance" of tab3             *)
(*     (lines 237-285), as one state machine driven by the answers of the  *)
(*     EC2 client;                                                         *)
(*   - the billing-PDF cost extraction of tab1 (lines 43-54, 79-80).       *)
(* src/app.py line 119 opens `with st.expander(...)` and lines 120-171 are *)
(* not indented under it; the model reads lines 120-171 as its body.       *)
(***************************************************************************)
EXTENDS Integers, Sequences, FiniteSets, TLC

None == "None"

(***************************************************************************)
(* Bounds of the model.                                                    *)
(***************************************************************************)
\* Longest BlockDeviceMappings list the provider answers with.
MaxMappings == 2
\* Polls of the snapshot_completed waiter before "Max attempts exceeded".
MaxAttempts == 3
\* Most label/amount segments in an uploaded billing text.
MaxLines == 3

(***************************************************************************)
(* Inputs: what the UI and the provider can hand to the handlers.          *)
(***************************************************************************)
InstanceIds == {"i-1"}
KeyNames == {"", "my-key"}
DeviceNames == {"/dev/xvda", "/dev/sda1", "/dev/sdf"}
RootDeviceNames == {"/dev/xvda", "/dev/sda1"}
VolumeIds == {"vol-1", "vol-2"}
Architectures == {"x86_64", "arm64"}
InstanceTypes == {"t2.micro", "t3.small"}
SnapshotIds == {"snap-1", "snap-2"}
ImageIds == {"ami-new-1"}
NewInstanceIds == {"i-new-1"}
ProviderMsgs == {"UnauthorizedOperation", "SnapshotLimitExceeded"}

Mapping == [DeviceName : DeviceNames, VolumeId : VolumeIds]

\* BlockDeviceMappings of one instance: device names are unique per instance.
MappingSeqs ==
    { s \in UNION { [1..n -> Mapping] : n \in 0..MaxMappings } :
        \A i, j \in DOMAIN s : i # j => s[i].DeviceName # s[j].DeviceName }

\* ['Reservations'][0]['Instances'][0] of a describe_instances answer.
InstanceDescs ==
    [RootDeviceName : RootDeviceNames, BlockDeviceMappings : MappingSeqs,
     Architecture : Architectures, InstanceType : InstanceTypes,
     AvailabilityZone : {"ap-south-1a"}]

NoDesc ==
    [RootDeviceName |-> None, BlockDeviceMappings |-> <<>>,
     Architecture |-> None, InstanceType |-> None, AvailabilityZone |-> None]

NoRefusal == [op |-> None, msg |-> None]

NoImageReq ==
    [Name |-> <<>>, RootDeviceName |-> None, DeviceName |-> None,
     SnapshotId |-> None, Architecture |-> None, VirtualizationType |-> None]

NoLaunchReq ==
    [ImageId |-> None, InstanceType |-> None, MinCount |-> 0, MaxCount |-> 0,
     KeyName |-> None, AvailabilityZone |-> None, DeviceName |-> None,
     SnapshotId |-> None]

VARIABLES
    \* ---- migration handlers (tab2, tab3) ----
    tab,               \* which migrate button was pressed: None, "tab2", "tab3"
    selected_instance, \* selectbox value; None when no instance is listed
    key_name,          \* tab3 text input "Key Pair Name"
    pc,                \* position in the handler
    desc,              \* instance description answered by describe_instances
    root_volume_id,
    snapshot_id,
    new_ami_id,
    new_instance_id,
    attempts,          \* polls made by the snapshot_completed waiter
    calls,             \* EC2 client operations called, in order
    phases,            \* workflow phases entered, in order
    shown,             \* st.info / st.success / st.error messages, in order
    outcome,           \* "none", "failed", "success"
    exc,               \* type of the exception that ended the run, or None
    refused,           \* the provider's refusal, if it refused an operation
    escaped,           \* an exception left the handler uncaught
    image_req,         \* arguments of register_image
    launch_req,        \* arguments of run_instances
    \* ---- cost extraction (tab1) ----
    full_text,         \* text of the uploaded PDF, a sequence of characters
    cost_pc,           \* "uploaded", "table", "no_entries"
    matches,           \* re.findall result: <<name, amount>> pairs
    data,              \* rows kept by the denylist filter
    df                 \* grouped, summed, sorted frame

migVars ==
    <<tab, selected_instance, key_name, pc, desc, root_volume_id, snapshot_id,
      new_ami_id, new_instance_id, attempts, calls, phases, shown, outcome,
      exc, refused, escaped, image_req, launch_req>>

costVars == <<full_text, cost_pc, matches, data, df>>

vars == <<migVars, costVars>>

Last(s) == s[Len(s)]

Count(s, x) == Cardinality({i \in DOMAIN s : s[i] = x})

Contains(s, x) == \E i \in DOMAIN s : s[i] = x

(***************************************************************************)
(* Exceptions and the handlers' except clause.                             *)
(***************************************************************************)
\* `except Exception` catches every class derived from Exception.
ExceptionSubclasses == {"ClientError", "WaiterError", "StopIteration", "NameError"}

CaughtOnlyClientError(e) == e = "ClientError"

Caught(e) == e \in ExceptionSubclasses

\* str(e) of a botocore ClientError: names the operation and carries the
\* provider's message.
ClientErrorText(op, m) ==
    <<"An error occurred when calling the ", op, " operation: ", m>>

\* str(e) of a botocore WaiterError.
WaiterErrorText(reason) == <<"Waiter SnapshotCompleted failed: ">> \o reason

\* st.error(f"Migration failed: {e}")
MigrationFailed(text) == [kind |-> "error", text |-> <<"Migration failed: ">> \o text]

\* The try block is left by exception e with text str(e).
Raise(e, text) ==
    /\ exc' = e
    /\ escaped' = ~Caught(e)
    /\ shown' = IF Caught(e) THEN Append(shown, MigrationFailed(text)) ELSE shown
    /\ outcome' = "failed"
    /\ pc' = "done"


(***************************************************************************)
(* Step 1: root volume of the selected instance.                           *)
(***************************************************************************)
MaxOf(S) == CHOOSE x \in S : \A y \in S : y <= x

MinOf(S) == CHOOSE x \in S : \A y \in S : x <= y

\* Indices of the mappings whose DeviceName equals the RootDeviceName.
RootMappings(d) ==
    { i \in DOMAIN d.BlockDeviceMappings :
        d.BlockDeviceMappings[i].DeviceName = d.RootDeviceName }

RootVolumeOrFirstMapping(t, d) ==
    LET m == d.BlockDeviceMappings
        idx == RootMappings(d)
    IN  IF idx # {} THEN m[MinOf(idx)].VolumeId
        ELSE IF Len(m) > 0 THEN m[1].VolumeId ELSE None

\* tab2: the for loop keeps the last match, root_volume_id stays None without
\* one.  tab3: next(...) yields the first match; None stands for its
\* StopIteration.
RootVolumeLookup(t, d) ==
    LET m == d.BlockDeviceMappings
        idx == RootMappings(d)
    IN  IF idx = {} THEN None
        ELSE IF t = "tab2" THEN m[MaxOf(idx)].VolumeId
        ELSE m[MinOf(idx)].VolumeId

\* if st.button("Migrate Instance"), shown only when instance_ids is not empty.
PressMigrateTab2 ==
    /\ pc = "idle"
    /\ selected_instance # None
    /\ tab' = "tab2"
    /\ pc' = "describe"
    /\ phases' = <<"Inspecting">>
    /\ UNCHANGED <<selected_instance, key_name, desc, root_volume_id,
                   snapshot_id, new_ami_id, new_instance_id, attempts, calls,
                   shown, outcome, exc, refused, escaped, image_req,
                   launch_req, costVars>>

\* if st.button("Migrate Selected Instance"), shown whatever the listing.
PressMigrateTab3 ==
    /\ pc = "idle"
    /\ tab' = "tab3"
    /\ pc' = "describe"
    /\ phases' = <<"Inspecting">>
    /\ UNCHANGED <<selected_instance, key_name, desc, root_volume_id,
                   snapshot_id, new_ami_id, new_instance_id, attempts, calls,
                   shown, outcome, exc, refused, escaped, image_req,
                   launch_req, costVars>>

\* tab3 with no instance listed: selected_instance was never assigned.
DescribeNameError ==
    /\ pc = "describe"
    /\ selected_instance = None
    /\ Raise("NameError", <<"name 'selected_instance' is not defined">>)
    /\ UNCHANGED <<tab, selected_instance, key_name, desc, root_volume_id,
                   snapshot_id, new_ami_id, new_instance_id, attempts, calls,
                   phases, refused, image_req, launch_req, costVars>>

\* ec2.describe_instances(InstanceIds=[...]) answers.
DescribeOk ==
    /\ pc = "describe"
    /\ selected_instance # None
    /\ \E d \in InstanceDescs : desc' = d
    /\ calls' = Append(calls, "describe_instances")
    /\ pc' = "lookup"
    /\ UNCHANGED <<tab, selected_instance, key_name, root_volume_id,
                   snapshot_id, new_ami_id, new_instance_id, attempts, phases,
                   shown, outcome, exc, refused, escaped, image_req,
                   launch_req, costVars>>

\* ec2.describe_instances raises ClientError.
DescribeRefused ==
    /\ pc = "describe"
    /\ selected_instance # None
    /\ \E m \in ProviderMsgs :
         /\ refused' = [op |-> "describe_instances", msg |-> m]
         /\ Raise("ClientError", ClientErrorText("describe_instances", m))
    /\ calls' = Append(calls, "describe_instances")
    /\ UNCHANGED <<tab, selected_instance, key_name, desc, root_volume_id,
                   snapshot_id, new_ami_id, new_instance_id, attempts, phases,
                   image_req, launch_req, costVars>>

\* A mapping with the root device name exists.
LookupFound ==
    /\ pc = "lookup"
    /\ RootVolumeLookup(tab, desc) # None
    /\ root_volume_id' = RootVolumeLookup(tab, desc)
    /\ pc' = "create_snapshot"
    /\ UNCHANGED <<tab, selected_instance, key_name, desc, snapshot_id,
                   new_ami_id, new_instance_id, attempts, calls, phases, shown,
                   outcome, exc, refused, escaped, image_req, launch_req,
                   costVars>>

\* tab2: if not root_volume_id: st.error(...), and the handler ends.
LookupMissingTab2 ==
    /\ pc = "lookup"
    /\ tab = "tab2"
    /\ RootVolumeLookup(tab, desc) = None
    /\ shown' = Append(shown, [kind |-> "error",
                  text |-> <<"Could not find root volume for the instance.">>])
    /\ outcome' = "failed"
    /\ pc' = "done"
    /\ UNCHANGED <<tab, selected_instance, key_name, desc, root_volume_id,
                   snapshot_id, new_ami_id, new_instance_id, attempts, calls,
                   phases, exc, refused, escaped, image_req, launch_req,
                   costVars>>

\* tab3: next(...) over no match raises StopIteration, whose str is empty.
LookupMissingTab3 ==
    /\ pc = "lookup"
    /\ tab = "tab3"
    /\ RootVolumeLookup(tab, desc) = None
    /\ Raise("StopIteration", <<>>)
    /\ UNCHANGED <<tab, selected_instance, key_name, desc, root_volume_id,
                   snapshot_id, new_ami_id, new_instance_id, attempts, calls,
                   phases, refused, image_req, launch_req, costVars>>

(***************************************************************************)
(* Step 2: snapshot of the root volume, and the snapshot_completed waiter. *)
(***************************************************************************)
\* The st.info after create_snapshot: tab3 prints the id, tab2 does not.
SnapshotInfo(t, sid) ==
    IF t = "tab2"
    THEN [kind |-> "info", text |-> <<"Snapshot initiated. Waiting to complete...">>]
    ELSE [kind |-> "info", text |-> <<"Creating snapshot ", sid, "...">>]

CreateSnapshotOk ==
    /\ pc = "create_snapshot"
    /\ \E sid \in SnapshotIds :
         /\ snapshot_id' = sid
         /\ shown' = Append(shown, SnapshotInfo(tab, sid))
    /\ calls' = Append(calls, "create_snapshot")
    /\ phases' = Append(phases, "SnapshotRequested")
    /\ pc' = "wait"
    /\ UNCHANGED <<tab, selected_instance, key_name, desc, root_volume_id,
                   new_ami_id, new_instance_id, attempts, outcome, exc,
                   refused, escaped, image_req, launch_req, costVars>>

CreateSnapshotRetried ==
    /\ pc = "create_snapshot"
    /\ Len(calls) < 4
    /\ calls' = Append(calls, "create_snapshot")
    /\ UNCHANGED <<tab, selected_instance, key_name, pc, desc, root_volume_id,
                   snapshot_id, new_ami_id, new_instance_id, attempts, phases,
                   shown, outcome, exc, refused, escaped, image_req,
                   launch_req, costVars>>

\* ec2.create_snapshot raises ClientError.
CreateSnapshotRefused ==
    /\ pc = "create_snapshot"
    /\ \E m \in ProviderMsgs :
         /\ refused' = [op |-> "create_snapshot", msg |-> m]
         /\ Raise("ClientError", ClientErrorText("create_snapshot", m))
    /\ calls' = Append(calls, "create_snapshot")
    /\ UNCHANGED <<tab, selected_instance, key_name, desc, root_volume_id,
                   snapshot_id, new_ami_id, new_instance_id, attempts, phases,
                   image_req, launch_req, costVars>>

\* waiter.wait(SnapshotIds=[snapshot_id]) is one client call, however many
\* times it polls.
WaitCalled == IF attempts = 0 THEN Append(calls, "wait") ELSE calls

\* The snapshot is still pending and attempts remain: sleep, poll again.
WaiterPending ==
    /\ pc = "wait"
    /\ attempts + 1 < MaxAttempts
    /\ attempts' = attempts + 1
    /\ calls' = WaitCalled
    /\ UNCHANGED <<tab, selected_instance, key_name, pc, desc, root_volume_id,
                   snapshot_id, new_ami_id, new_instance_id, phases, shown,
                   outcome, exc, refused, escaped, image_req, launch_req,
                   costVars>>

\* The snapshot reports completed: tab2 goes on to run_instances, tab3 to
\* register_image.
WaiterCompleted ==
    /\ pc = "wait"
    /\ attempts < MaxAttempts
    /\ attempts' = attempts + 1
    /\ calls' = WaitCalled
    /\ phases' = Append(phases, "SnapshotReady")
    /\ pc' = IF tab = "tab2" THEN "launch" ELSE "register"
    /\ UNCHANGED <<tab, selected_instance, key_name, desc, root_volume_id,
                   snapshot_id, new_ami_id, new_instance_id, shown, outcome,
                   exc, refused, escaped, image_req, launch_req, costVars>>

\* The snapshot is still pending at the last attempt.
WaiterMaxAttempts ==
    /\ pc = "wait"
    /\ attempts + 1 >= MaxAttempts
    /\ attempts' = attempts + 1
    /\ calls' = WaitCalled
    /\ Raise("WaiterError", WaiterErrorText(<<"Max attempts exceeded">>))
    /\ UNCHANGED <<tab, selected_instance, key_name, desc, root_volume_id,
                   snapshot_id, new_ami_id, new_instance_id, phases, refused,
                   image_req, launch_req, costVars>>

\* The snapshot reports state "error".
WaiterFailureState ==
    /\ pc = "wait"
    /\ attempts < MaxAttempts
    /\ attempts' = attempts + 1
    /\ calls' = WaitCalled
    /\ Raise("WaiterError",
             WaiterErrorText(<<"Waiter encountered a terminal failure state">>))
    /\ UNCHANGED <<tab, selected_instance, key_name, desc, root_volume_id,
                   snapshot_id, new_ami_id, new_instance_id, phases, refused,
                   image_req, launch_req, costVars>>

\* The poll itself is refused: the waiter wraps the ClientError.
WaiterRefused ==
    /\ pc = "wait"
    /\ attempts < MaxAttempts
    /\ attempts' = attempts + 1
    /\ calls' = WaitCalled
    /\ \E m \in ProviderMsgs :
         /\ refused' = [op |-> "wait", msg |-> m]
         /\ Raise("WaiterError", WaiterErrorText(ClientErrorText("describe_snapshots", m)))
    /\ UNCHANGED <<tab, selected_instance, key_name, desc, root_volume_id,
                   snapshot_id, new_ami_id, new_instance_id, phases,
                   image_req, launch_req, costVars>>


(***************************************************************************)
(* Step 3 (tab3 only): register an AMI from the snapshot.                  *)
(***************************************************************************)
\* Arguments of ec2.register_image: root device name and architecture are
\* those of the described instance.
ImageRequest ==
    [Name |-> <<"migrated-ami-", selected_instance>>,
     RootDeviceName |-> desc.RootDeviceName,
     DeviceName |-> desc.RootDeviceName,
     SnapshotId |-> snapshot_id,
     Architecture |-> desc.Architecture,
     VirtualizationType |-> "hvm"]

RegisterImageOk ==
    /\ pc = "register"
    /\ image_req' = ImageRequest
    /\ \E ami \in ImageIds :
         /\ new_ami_id' = ami
         /\ shown' = Append(shown, [kind |-> "success",
                                    text |-> <<"AMI created: ", ami>>])
    /\ calls' = Append(calls, "register_image")
    /\ phases' = Append(phases, "ImageRegistered")
    /\ pc' = "launch"
    /\ UNCHANGED <<tab, selected_instance, key_name, desc, root_volume_id,
                   snapshot_id, new_instance_id, attempts, outcome, exc,
                   refused, escaped, launch_req, costVars>>

\* ec2.register_image raises ClientError.
RegisterImageRefused ==
    /\ pc = "register"
    /\ image_req' = ImageRequest
    /\ \E m \in ProviderMsgs :
         /\ refused' = [op |-> "register_image", msg |-> m]
         /\ Raise("ClientError", ClientErrorText("register_image", m))
    /\ calls' = Append(calls, "register_image")
    /\ UNCHANGED <<tab, selected_instance, key_name, desc, root_volume_id,
                   snapshot_id, new_ami_id, new_instance_id, attempts, phases,
                   launch_req, costVars>>

(***************************************************************************)
(* Step 4: launch the replacement instance.                                *)
(***************************************************************************)
\* Arguments of ec2.run_instances.  tab2 passes literals and a block device
\* mapping of the snapshot; tab3 passes the new AMI and the source's type.
LaunchRequest ==
    IF tab = "tab2"
    THEN [ImageId |-> "ami-0a0ad6b70e61be944", InstanceType |-> "t2.micro",
          MinCount |-> 1, MaxCount |-> 1, KeyName |-> "your-keypair-name",
          AvailabilityZone |-> None, DeviceName |-> "/dev/xvda",
          SnapshotId |-> snapshot_id]
    ELSE [ImageId |-> new_ami_id, InstanceType |-> desc.InstanceType,
          MinCount |-> 1, MaxCount |-> 1, KeyName |-> key_name,
          AvailabilityZone |-> desc.AvailabilityZone, DeviceName |-> None,
          SnapshotId |-> None]

\* The st.success after run_instances.
LaunchedMessage(t, id) ==
    IF t = "tab2"
    THEN [kind |-> "success", text |-> <<"New instance launched: ", id>>]
    ELSE [kind |-> "success", text |-> <<"Migrated EC2 launched: ", id>>]

RunInstancesOk ==
    /\ pc = "launch"
    /\ launch_req' = LaunchRequest
    /\ \E id \in NewInstanceIds :
         /\ new_instance_id' = id
         /\ shown' = Append(shown, LaunchedMessage(tab, id))
    /\ calls' = Append(calls, "run_instances")
    /\ phases' = Append(phases, "Launched")
    /\ outcome' = "success"
    /\ pc' = "done"
    /\ UNCHANGED <<tab, selected_instance, key_name, desc, root_volume_id,
                   snapshot_id, new_ami_id, attempts, exc, refused, escaped,
                   image_req, costVars>>

\* ec2.run_instances raises ClientError.
RunInstancesRefused ==
    /\ pc = "launch"
    /\ launch_req' = LaunchRequest
    /\ \E m \in ProviderMsgs :
         /\ refused' = [op |-> "run_instances", msg |-> m]
         /\ Raise("ClientError", ClientErrorText("run_instances", m))
    /\ calls' = Append(calls, "run_instances")
    /\ UNCHANGED <<tab, selected_instance, key_name, desc, root_volume_id,
                   snapshot_id, new_ami_id, new_instance_id, attempts, phases,
                   image_req, costVars>>

(***************************************************************************)
(* The migration state machine.                                            *)
(***************************************************************************)
MigrationIdle ==
    /\ tab = None
    /\ pc = "idle"
    /\ desc = NoDesc
    /\ root_volume_id = None
    /\ snapshot_id = None
    /\ new_ami_id = None
    /\ new_instance_id = None
    /\ attempts = 0
    /\ calls = <<>>
    /\ phases = <<>>
    /\ shown = <<>>
    /\ outcome = "none"
    /\ exc = None
    /\ refused = NoRefusal
    /\ escaped = FALSE
    /\ image_req = NoImageReq
    /\ launch_req = NoLaunchReq

NoUpload ==
    /\ full_text = <<>>
    /\ cost_pc = "no_file"
    /\ matches = <<>>
    /\ data = <<>>
    /\ df = <<>>

Init ==
    /\ MigrationIdle
    /\ selected_instance \in InstanceIds \cup {None}
    /\ key_name \in KeyNames
    /\ NoUpload

Next ==
    \/ PressMigrateTab2
    \/ PressMigrateTab3
    \/ DescribeNameError
    \/ DescribeOk
    \/ DescribeRefused
    \/ LookupFound
    \/ LookupMissingTab2
    \/ LookupMissingTab3
    \/ CreateSnapshotOk
    \/ CreateSnapshotRefused
    \/ WaiterPending
    \/ WaiterCompleted
    \/ WaiterMaxAttempts
    \/ WaiterFailureState
    \/ WaiterRefused
    \/ RegisterImageOk
    \/ RegisterImageRefused
    \/ RunInstancesOk
    \/ RunInstancesRefused

Spec == Init /\ [][Next]_vars


(***************************************************************************)
(* tab1: cost extraction from the text of the uploaded billing PDF.        *)
(* A text is a sequence of characters, each a one-character string; "NL"   *)
(* stands for the newline and "NBSP" for \xa0.                             *)
(***************************************************************************)
LowerLetters ==
    {"a", "b", "c", "d", "e", "f", "g", "h", "i", "j", "k", "l", "m",
     "n", "o", "p", "q", "r", "s", "t", "u", "v", "w", "x", "y", "z"}

UpperLetters ==
    {"A", "B", "C", "D", "E", "F", "G", "H", "I", "J", "K", "L", "M",
     "N", "O", "P", "Q", "R", "S", "T", "U", "V", "W", "X", "Y", "Z"}

Digits == {"0", "1", "2", "3", "4", "5", "6", "7", "8", "9"}

\* \s of a str pattern: Unicode whitespace, \xa0 included.
Whitespace == {" ", "NL", "NBSP"}

\* [A-Za-z ]
NameChars == LowerLetters \cup UpperLetters \cup {" "}

\* [0-9,]
AmountChars == Digits \cup {","}

LowerOf ==
    "A" :> "a" @@ "B" :> "b" @@ "C" :> "c" @@ "D" :> "d" @@
    "E" :> "e" @@ "F" :> "f" @@ "G" :> "g" @@ "H" :> "h" @@
    "I" :> "i" @@ "J" :> "j" @@ "K" :> "k" @@ "L" :> "l" @@
    "M" :> "m" @@ "N" :> "n" @@ "O" :> "o" @@ "P" :> "p" @@
    "Q" :> "q" @@ "R" :> "r" @@ "S" :> "s" @@ "T" :> "t" @@
    "U" :> "u" @@ "V" :> "v" @@ "W" :> "w" @@ "X" :> "x" @@
    "Y" :> "y" @@ "Z" :> "z"

DigitValue ==
    "0" :> 0 @@ "1" :> 1 @@ "2" :> 2 @@ "3" :> 3 @@ "4" :> 4 @@
    "5" :> 5 @@ "6" :> 6 @@ "7" :> 7 @@ "8" :> 8 @@ "9" :> 9

\* str.lower()
Lower(str) ==
    [i \in DOMAIN str |-> IF str[i] \in UpperLetters THEN LowerOf[str[i]] ELSE str[i]]

\* str.strip(): whitespace removed at both ends.
Strip(str) ==
    LET inked == {i \in DOMAIN str : str[i] \notin Whitespace}
    IN  IF inked = {} THEN <<>>
        ELSE SubSeq(str, MinOf(inked), MaxOf(inked))

\* First index from k on whose character is not in class (Len(t) + 1 if none):
\* the end of a greedy run of class characters.
RunEnd(t, k, class) ==
    LET stops == {i \in k..Len(t) : t[i] \notin class}
    IN  IF stops = {} THEN Len(t) + 1 ELSE MinOf(stops)

At(t, i) == IF i \in DOMAIN t THEN t[i] ELSE "EOF"

\* \s+USD(?:\xa0|\s)?([0-9,]+\.\d{2}) tried at index k.  Each greedy run can
\* only succeed at its full length: a shorter run leaves a character of its
\* own class where "U" or "." must follow.
TailMatch(t, k) ==
    LET u == RunEnd(t, k, Whitespace)
        q == IF At(t, u + 3) \in Whitespace THEN u + 4 ELSE u + 3
        d == RunEnd(t, q, AmountChars)
        ok == /\ u > k
              /\ At(t, u) = "U" /\ At(t, u + 1) = "S" /\ At(t, u + 2) = "D"
              /\ d > q
              /\ At(t, d) = "."
              /\ At(t, d + 1) \in Digits
              /\ At(t, d + 2) \in Digits
    IN  [ok |-> ok, from |-> q, to |-> d + 2]

\* ([A-Za-z ]+?) tried at index i: the shortest run of name characters after
\* which the rest of the pattern matches.
NameEnds(t, i) ==
    { j \in i..Len(t) :
        /\ \A x \in i..j : t[x] \in NameChars
        /\ TailMatch(t, j + 1).ok }

RECURSIVE FindAll(_, _)
\* re.findall(pattern, t) from index p on: leftmost matches, non-overlapping.
FindAll(t, p) ==
    IF p > Len(t) THEN <<>>
    ELSE IF NameEnds(t, p) = {} THEN FindAll(t, p + 1)
    ELSE LET j == MinOf(NameEnds(t, p))
             m == TailMatch(t, j + 1)
         IN  <<[name |-> SubSeq(t, p, j), amount |-> SubSeq(t, m.from, m.to)]>>
               \o FindAll(t, m.to + 1)

RECURSIVE DigitsValue(_)
\* Value of the digits of a string, read as one decimal number.
DigitsValue(str) ==
    IF str = <<>> THEN 0
    ELSE LET init == SubSeq(str, 1, Len(str) - 1)
             c == str[Len(str)]
         IN  IF c \in Digits THEN 10 * DigitsValue(init) + DigitValue[c]
             ELSE DigitsValue(init)

\* float(amount.replace(",", "")), kept in minor units: an amount always ends
\* in "." and two digits, so its value times 100 is the number its digits
\* spell.  Costs are held in cents throughout; the float64 sums of the code
\* are within half a cent of them for any total below 2^53 / 100.
Cost(amount) == DigitsValue(amount)

Denylist ==
    { <<"t", "o", "t", "a", "l">>,
      <<"g", "r", "a", "n", "d", " ", "t", "o", "t", "a", "l">>,
      <<"a", "m", "a", "z", "o", "n", " ", "w", "e", "b", " ", "s", "e", "r",
      "v", "i", "c", "e", "s", " ", "i", "n", "d", "i", "a", " ", "p", "r",
      "i", "v", "a", "t", "e", " ", "l", "i", "m", "i", "t", "e", "d">> }

\* if name.lower() not in [...]: the untrimmed name is looked up.
Kept(name) == Lower(name) \notin Denylist

RECURSIVE Rows(_)
\* The for loop over matches: data.append({"Service": ..., "Cost": ...}).
Rows(ms) ==
    IF ms = <<>> THEN <<>>
    ELSE LET m == ms[1]
         IN  (IF Kept(m.name)
              THEN <<[Service |-> Strip(m.name), Cost |-> Cost(m.amount)]>>
              ELSE <<>>) \o Rows(Tail(ms))

RECURSIVE SumCost(_)
SumCost(rows) ==
    IF rows = <<>> THEN 0 ELSE rows[1].Cost + SumCost(Tail(rows))

\* df.groupby("Service", as_index=False).sum(): one row per distinct Service
\* string, its Cost the sum of the group's.
GroupSum(rows) ==
    { [Service |-> k,
       Cost |-> SumCost(SelectSeq(rows, LAMBDA r : r.Service = k))] :
      k \in { rows[i].Service : i \in DOMAIN rows } }

\* .sort_values(by="Cost", ascending=False): every order of the groups that
\* descends by Cost; the default sort is not stable, so ties may land in
\* either order.
SortedFrames(groups) ==
    { f \in [1..Cardinality(groups) -> groups] :
        /\ \A i, j \in DOMAIN f : i # j => f[i] # f[j]
        /\ \A i, j \in DOMAIN f : i < j => f[i].Cost >= f[j].Cost }

\* if data: the frame is grouped, sorted and shown.
ShowCostTable ==
    /\ cost_pc = "uploaded"
    /\ Rows(FindAll(full_text, 1)) # <<>>
    /\ matches' = FindAll(full_text, 1)
    /\ data' = Rows(FindAll(full_text, 1))
    /\ df' \in SortedFrames(GroupSum(Rows(FindAll(full_text, 1))))
    /\ cost_pc' = "table"
    /\ UNCHANGED <<full_text, migVars>>

\* else: st.error("No valid AWS service cost entries found in the PDF.")
ShowNoEntries ==
    /\ cost_pc = "uploaded"
    /\ Rows(FindAll(full_text, 1)) = <<>>
    /\ matches' = FindAll(full_text, 1)
    /\ data' = <<>>
    /\ df' = <<>>
    /\ cost_pc' = "no_entries"
    /\ UNCHANGED <<full_text, migVars>>

\* Pieces of billing text an uploaded document is made of.
Segments ==
    { <<"L", "a", "m", "b", "d", "a", " ", "U", "S", "D", " ", "1", ".", "5",
      "0", "NL">>,
      <<"l", "a", "m", "b", "d", "a", " ", "U", "S", "D", "NBSP", "2", ".",
      "2", "5", " ">>,
      <<"T", "o", "t", "a", "l", " ", "U", "S", "D", " ", "3", ".", "7", "5",
      "NL">>,
      <<"G", "R", "A", "N", "D", " ", "T", "O", "T", "A", "L", " ", " ", "U",
      "S", "D", " ", "1", ",", "0", "0", "0", ".", "0", "0", " ">>,
      <<"R", "e", "g", "i", "o", "n", " ", "M", "u", "m", "b", "a", "i",
      "NL">>,
      <<"D", "a", "t", "a", " ", "T", "r", "a", "n", "s", "f", "e", "r", " ",
      "U", "S", "D", " ", "0", ".", "7", "5", "NL">> }

RECURSIVE Flatten(_)
Flatten(ss) == IF ss = <<>> THEN <<>> ELSE ss[1] \o Flatten(Tail(ss))

Texts ==
    { Flatten(ss) : ss \in UNION { [1..n -> Segments] : n \in 0..MaxLines } }

InitCost ==
    /\ MigrationIdle
    /\ selected_instance = None
    /\ key_name = ""
    /\ full_text \in Texts
    /\ cost_pc = "uploaded"
    /\ matches = <<>>
    /\ data = <<>>
    /\ df = <<>>

NextCost == ShowCostTable \/ ShowNoEntries

SpecCost == InitCost /\ [][NextCost]_vars

(***************************************************************************)
(* Properties of the migration handlers.                                   *)
(***************************************************************************)
\* The described instance has no mapping named like its root device.
NoRootMapping == desc # NoDesc /\ RootMappings(desc) = {}

\* The run ended on the missing root volume: tab3's StopIteration, or tab2's
\* "Could not find root volume" branch.
MissingRootVolume ==
    \/ exc = "StopIteration"
    \/ /\ exc = None
       /\ shown # <<>>
       /\ Last(shown).text = <<"Could not find root volume for the instance.">>

\* The run ended on the waiter giving up after its last attempt.
WaitTimedOut ==
    /\ exc = "WaiterError"
    /\ refused = NoRefusal
    /\ shown # <<>>
    /\ Contains(Last(shown).text, "Max attempts exceeded")

\* Every piece of text shown to the user during the run.
ShownParts == UNION { { shown[i].text[j] : j \in DOMAIN shown[i].text } : i \in DOMAIN shown }

\* C1: when the described instance has no block-device mapping whose device
\* name is its root device name, the run stops in phase Inspecting on the
\* missing root volume, and create_snapshot, register_image and run_instances
\* are never called.
C1_MissingRootVolumeStopsRun ==
    NoRootMapping =>
        /\ pc \in {"lookup", "done"}
        /\ ~Contains(calls, "create_snapshot")
        /\ ~Contains(calls, "register_image")
        /\ ~Contains(calls, "run_instances")
        /\ pc = "done" =>
             /\ outcome = "failed"
             /\ phases = <<"Inspecting">>
             /\ MissingRootVolume

C1_Witness ==
    /\ NoRootMapping
    /\ tab = "tab3"
    /\ Len(desc.BlockDeviceMappings) > 0
    /\ pc = "done"

\* C2: when a snapshot was created and the waiter gave up after its last
\* attempt, the run has failed in phase SnapshotRequested, register_image and
\* run_instances were never called, and the snapshot's id was shown to the
\* user.
C2_TimeoutReportsSnapshot ==
    WaitTimedOut =>
        /\ outcome = "failed"
        /\ Last(phases) = "SnapshotRequested"
        /\ ~Contains(calls, "register_image")
        /\ ~Contains(calls, "run_instances")
        /\ snapshot_id \in ShownParts

\* C3: a run in which every operation succeeded went through the five phases
\* in order, called the five operations in order, and has a new instance id.
C3_SuccessfulRunOrder ==
    outcome = "success" =>
        /\ phases = <<"Inspecting", "SnapshotRequested", "SnapshotReady",
                      "ImageRegistered", "Launched">>
        /\ calls = <<"describe_instances", "create_snapshot", "wait",
                     "register_image", "run_instances">>
        /\ new_instance_id \in NewInstanceIds

\* C4: create_snapshot, register_image and run_instances are each called at
\* most once in a run, and a launched run made one run_instances call asking
\* for exactly one instance.
C4_NoPhaseRetried ==
    /\ Count(calls, "create_snapshot") <= 1
    /\ Count(calls, "register_image") <= 1
    /\ Count(calls, "run_instances") <= 1
    /\ outcome = "success" =>
         /\ Last(phases) = "Launched"
         /\ Count(calls, "run_instances") = 1
         /\ launch_req.MinCount = 1
         /\ launch_req.MaxCount = 1

C4_Witness == outcome = "success" /\ tab = "tab3"

\* Order of the operations of a run, and the phase each one leads to.
OpRank(op) ==
    CASE op = "describe_instances" -> 1
      [] op = "create_snapshot" -> 2
      [] op = "wait" -> 3
      [] op = "register_image" -> 4
      [] op = "run_instances" -> 5

PhaseRank(ph) ==
    CASE ph = "Inspecting" -> 1
      [] ph = "SnapshotRequested" -> 2
      [] ph = "SnapshotReady" -> 3
      [] ph = "ImageRegistered" -> 4
      [] ph = "Launched" -> 5

\* C5: when the provider refuses an operation, the run is over and failed, the
\* refused operation is the last one called (none of a later phase), the phase
\* that operation leads to was not entered, the error shown carries the
\* provider's message, and no exception left the handler.
C5_RefusalEndsRunAtPhase ==
    refused # NoRefusal =>
        /\ pc = "done"
        /\ outcome = "failed"
        /\ Last(calls) = refused.op
        /\ \A i \in DOMAIN calls : OpRank(calls[i]) <= OpRank(refused.op)
        /\ \/ refused.op = "describe_instances"
           \/ PhaseRank(Last(phases)) < OpRank(refused.op)
        /\ ~escaped
        /\ shown # <<>>
        /\ Last(shown).kind = "error"
        /\ Contains(Last(shown).text, refused.msg)

C5_Witness == refused.op = "wait" /\ attempts = 2 /\ pc = "done"

\* C6: when a run has failed, an error was shown, the id of the snapshot (once
\* created) and of the image (once registered) was shown to the user, and no
\* delete_snapshot or deregister_image call was made.
C6_FailureNamesCreatedResources ==
    outcome = "failed" =>
        /\ shown # <<>>
        /\ Last(shown).kind = "error"
        /\ snapshot_id # None => snapshot_id \in ShownParts
        /\ new_ami_id # None => new_ami_id \in ShownParts
        /\ ~Contains(calls, "delete_snapshot")
        /\ ~Contains(calls, "deregister_image")

\* C10: the root device name passed to register_image, and the device name
\* passed to run_instances, is the described instance's RootDeviceName, and
\* the architecture passed to register_image is the instance's.
C10_RootDeviceNamePreserved ==
    /\ image_req # NoImageReq =>
         /\ image_req.RootDeviceName = desc.RootDeviceName
         /\ image_req.DeviceName = desc.RootDeviceName
         /\ image_req.Architecture = desc.Architecture
    /\ (launch_req # NoLaunchReq /\ launch_req.DeviceName # None) =>
         launch_req.DeviceName = desc.RootDeviceName


(***************************************************************************)
(* Properties of the cost extraction.                                      *)
(***************************************************************************)
\* A label as the aggregation is specified to compare it: trimmed, case-folded.
Normalized(name) == Lower(Strip(name))

Denylisted(name) == Normalized(name) \in Denylist

\* The matches whose normalized label is not on the denylist.
Contributing == SelectSeq(matches, LAMBDA m : ~Denylisted(m.name))

RECURSIVE SumAmounts(_)
SumAmounts(ms) ==
    IF ms = <<>> THEN 0 ELSE Cost(ms[1].amount) + SumAmounts(Tail(ms))

\* C7: once the text is processed, the totals of the result add up to the
\* amounts of the matched lines whose trimmed, case-folded label is not on the
\* denylist.
C7_TotalsSumToContributingAmounts ==
    cost_pc # "uploaded" => SumCost(df) = SumAmounts(Contributing)

\* C8: for every normalized label among the contributing matches there is
\* exactly one result entry with that normalized service name, and its total
\* is the sum of all contributing amounts under that normalized label.
C8_OneEntryPerNormalizedLabel ==
    cost_pc # "uploaded" =>
        \A k \in DOMAIN Contributing :
            LET n == Normalized(Contributing[k].name)
                entries == {i \in DOMAIN df : Normalized(df[i].Service) = n}
            IN  /\ Cardinality(entries) = 1
                /\ \A i \in entries :
                     df[i].Cost =
                       SumAmounts(SelectSeq(Contributing,
                                            LAMBDA m : Normalized(m.name) = n))

\* C9: a matched line whose trimmed, case-folded label is on the denylist is
\* in no entry of the result; any other matched line is in exactly one.
C9_DenylistedLinesExcluded ==
    cost_pc # "uploaded" =>
        \A k \in DOMAIN matches :
            LET entries == {i \in DOMAIN df : df[i].Service = Strip(matches[k].name)}
            IN  IF Denylisted(matches[k].name)
                THEN entries = {}
                ELSE Cardinality(entries) = 1

====
